---- MODULE Spec2Model ----
(***************************************************************************)
(* A model of the brain-wrangler timer: the zustand store of               *)
(* src/src/store/index.ts (timer, tasks, settings and sessions slices,     *)
(* completePomodoro, getDailyStats, page reloads through persist), the     *)
(* wall clock the store reads                                              *)
(* through Date.now(), and the components that drive the store (TimerPage, *)
(* TasksPage and the useTimer hook).                                       *)
(*                                                                         *)
(* Time.  Date.now() is the variable now.  The code counts milliseconds    *)
(* and divides by 1000; the model's clock counts units of 1/ClockResolution*)
(* second, so that a second still has a fractional part the floor can      *)
(* lose.  The code turns minutes into seconds with * 60; the model's       *)
(* minute lasts MinuteLength seconds.  Both are bounds of the model.       *)
(***************************************************************************)
EXTENDS Integers, Sequences, FiniteSets, TLC

\* ---------------------------------------------------------------- bounds
ClockResolution == 2
MinuteLength == 2
MaxNow == 13
MaxAdvance == 4
MaxSessions == 1
MaxCadenceSessions == 9

\* ------------------------------------------------------- values and types
NULL == -1

IDLE == "idle"
RUNNING == "running"
PAUSED == "paused"
TimerStatus == {IDLE, RUNNING, PAUSED}

WORK == "work"
SHORT_BREAK == "shortBreak"
LONG_BREAK == "longBreak"
TimerMode == {WORK, SHORT_BREAK, LONG_BREAK}

PENDING == "pending"
IN_PROGRESS == "inProgress"
COMPLETED == "completed"

Max(a, b) == IF a >= b THEN a ELSE b
Min(a, b) == IF a <= b THEN a ELSE b

\* JavaScript truthiness of a number | null: null and 0 are falsy.
Truthy(x) == x # NULL /\ x # 0

\* ---------------------------------------------------------------- settings
defaultSettings ==
  [ workDuration |-> 25, shortBreakDuration |-> 5, longBreakDuration |-> 15,
    longBreakInterval |-> 4, autoStartBreaks |-> FALSE, autoStartWork |-> FALSE ]

DEFAULT_WORK_DURATION == 25 * MinuteLength

\* Settings a reload can rehydrate from storage (persist's partialize keeps
\* settings): short durations, so that a countdown ends within MaxNow.
PersistedSettings ==
  [ workDuration : {2}, shortBreakDuration : {1}, longBreakDuration : {3},
    longBreakInterval : {2}, autoStartBreaks : BOOLEAN, autoStartWork : BOOLEAN ]

\* The same with every cadence: for the runs that count completions.
CadenceSettings ==
  [ workDuration : {2}, shortBreakDuration : {1}, longBreakDuration : {3},
    longBreakInterval : {2, 3, 4}, autoStartBreaks : BOOLEAN, autoStartWork : BOOLEAN ]

\* ---------------------------------------------------------------- state
VARIABLES
  now,                 \* Date.now()
  status, mode, remainingSeconds, currentTaskId, pomodorosInSession,
  startTime, totalDuration,
  tasks, settings, sessions,
  script,              \* a scripted scenario's position and parameters
  ui,                  \* which component drives the store: "page", "hook" or "none"
  rStatus, rMode, rRemaining, rTotal,   \* the values the last render read
  previousRemainingRef, intervalId,      \* TimerPage: its ref and its interval
  completionHandledRef, targetEndTimeRef, intervalRef   \* useTimer: its refs

storeVars == << status, mode, remainingSeconds, currentTaskId, pomodorosInSession,
                startTime, totalDuration, tasks, settings, sessions >>
uiVars == << ui, rStatus, rMode, rRemaining, rTotal, previousRemainingRef, intervalId,
             completionHandledRef, targetEndTimeRef, intervalRef >>
vars == << now, storeVars, script, uiVars >>

NoScript == [pc |-> "none", R |-> 0, D |-> 0]

\* No component mounted: the store is called directly.
NoUI ==
  /\ ui = "none"
  /\ rStatus = IDLE /\ rMode = WORK /\ rRemaining = 0 /\ rTotal = 0
  /\ previousRemainingRef = 0 /\ intervalId = FALSE
  /\ completionHandledRef = FALSE /\ targetEndTimeRef = NULL /\ intervalRef = FALSE

\* The store as one value: what get() returns.
Store ==
  [ status |-> status, mode |-> mode, remainingSeconds |-> remainingSeconds,
    currentTaskId |-> currentTaskId, pomodorosInSession |-> pomodorosInSession,
    startTime |-> startTime, totalDuration |-> totalDuration,
    tasks |-> tasks, settings |-> settings, sessions |-> sessions ]

\* set(): the store becomes s.
SetStore(s) ==
  /\ status' = s.status
  /\ mode' = s.mode
  /\ remainingSeconds' = s.remainingSeconds
  /\ currentTaskId' = s.currentTaskId
  /\ pomodorosInSession' = s.pomodorosInSession
  /\ startTime' = s.startTime
  /\ totalDuration' = s.totalDuration
  /\ tasks' = s.tasks
  /\ settings' = s.settings
  /\ sessions' = s.sessions

\* ------------------------------------------------------ duration resolver
getDurationForMode(m, timer) ==
  CASE m = WORK -> timer.workDuration * MinuteLength
    [] m = SHORT_BREAK -> timer.shortBreakDuration * MinuteLength
    [] m = LONG_BREAK -> timer.longBreakDuration * MinuteLength
    [] OTHER -> timer.workDuration * MinuteLength

\* Math.floor((Date.now() - state.startTime) / 1000)
ElapsedSeconds(t, anchor) == (t - anchor) \div ClockResolution

\* Mutant: the clamp at 0 forgotten.
RecomputeUnclamped(s, t) == s.totalDuration - ElapsedSeconds(t, s.startTime)

\* Math.max(0, state.totalDuration - elapsed)
Recompute(s, t) == Max(0, s.totalDuration - ElapsedSeconds(t, s.startTime))

\* ------------------------------------------------------------ timer slice
\* Mutant: the remaining time is not made the running period's duration.
startTimerKeepTotalOn(s, t) ==
  [s EXCEPT !.status = RUNNING, !.startTime = t]

startTimerOn(s, t) ==
  [s EXCEPT !.status = RUNNING, !.startTime = t, !.totalDuration = s.remainingSeconds]

\* Mutant: a pause that forgets to clear the anchor.
pauseTimerKeepAnchorOn(s, t) ==
  LET synced == IF Truthy(s.startTime) /\ s.status = RUNNING
                THEN [s EXCEPT !.remainingSeconds = Recompute(s, t)]
                ELSE s
  IN [synced EXCEPT !.status = PAUSED]

\* Mutant: a pause that rounds the elapsed time up to whole seconds.
pauseTimerCeilOn(s, t) ==
  LET elapsed == (t - s.startTime + ClockResolution - 1) \div ClockResolution
      synced == IF Truthy(s.startTime) /\ s.status = RUNNING
                THEN [s EXCEPT !.remainingSeconds = Max(0, s.totalDuration - elapsed)]
                ELSE s
  IN [synced EXCEPT !.status = PAUSED, !.startTime = NULL]

\* Mutant: pausing without recomputing the remaining time first.
pauseTimerNoSyncOn(s, t) ==
  [s EXCEPT !.status = PAUSED, !.startTime = NULL]

pauseTimerOn(s, t) ==
  LET synced == IF Truthy(s.startTime) /\ s.status = RUNNING
                THEN [s EXCEPT !.remainingSeconds = Recompute(s, t)]
                ELSE s
  IN [synced EXCEPT !.status = PAUSED, !.startTime = NULL]

\* Mutant: a reset that always arms the default work duration.
resetTimerDefaultOn(s) ==
  [s EXCEPT !.status = IDLE, !.startTime = NULL,
            !.remainingSeconds = DEFAULT_WORK_DURATION,
            !.totalDuration = DEFAULT_WORK_DURATION]

resetTimerOn(s) ==
  LET duration == CASE s.mode = WORK -> s.settings.workDuration * MinuteLength
                    [] s.mode = SHORT_BREAK -> s.settings.shortBreakDuration * MinuteLength
                    [] s.mode = LONG_BREAK -> s.settings.longBreakDuration * MinuteLength
  IN [s EXCEPT !.status = IDLE, !.startTime = NULL,
               !.remainingSeconds = duration, !.totalDuration = duration]

\* Mutant: a tick that counts invocations, one second each.
tickCountdownOn(s, t) ==
  IF s.status # RUNNING THEN s
  ELSE IF s.remainingSeconds > 1
       THEN [s EXCEPT !.remainingSeconds = @ - 1]
       ELSE [s EXCEPT !.remainingSeconds = 0, !.status = IDLE, !.startTime = NULL]

\* Mutant: a tick without the zero-reached transition.
tickNoStopOn(s, t) ==
  IF s.status # RUNNING THEN s
  ELSE IF Truthy(s.startTime)
       THEN [s EXCEPT !.remainingSeconds = Recompute(s, t)]
       ELSE s

\* Mutant: a tick that rolls over to the next mode when it reaches zero.
tickRollOverOn(s, t) ==
  IF s.status # RUNNING THEN s
  ELSE IF Truthy(s.startTime)
       THEN LET newRemaining == Recompute(s, t)
            IN IF newRemaining > 0
               THEN [s EXCEPT !.remainingSeconds = newRemaining]
               ELSE [s EXCEPT !.remainingSeconds = 0, !.status = IDLE, !.startTime = NULL,
                              !.mode = IF @ = WORK THEN SHORT_BREAK ELSE WORK]
       ELSE s

tickOn(s, t) ==
  IF s.status # RUNNING THEN s
  ELSE IF Truthy(s.startTime)
       THEN LET newRemaining == Recompute(s, t)
            IN IF newRemaining > 0
               THEN [s EXCEPT !.remainingSeconds = newRemaining]
               ELSE [s EXCEPT !.remainingSeconds = 0, !.status = IDLE, !.startTime = NULL]
       ELSE s

\* Mutant: a sync that performs the tick's zero-reached transition.
syncTimerStopOn(s, t) == tickOn(s, t)

syncTimerOn(s, t) ==
  IF s.status = RUNNING /\ Truthy(s.startTime)
  THEN [s EXCEPT !.remainingSeconds = Recompute(s, t)]
  ELSE s

\* Mutant: a manual mode switch that also restarts the cycle count.
setModeClearCountOn(s, m) ==
  LET duration == CASE m = WORK -> s.settings.workDuration * MinuteLength
                    [] m = SHORT_BREAK -> s.settings.shortBreakDuration * MinuteLength
                    [] m = LONG_BREAK -> s.settings.longBreakDuration * MinuteLength
  IN [s EXCEPT !.mode = m, !.status = IDLE, !.startTime = NULL,
               !.remainingSeconds = duration, !.totalDuration = duration,
               !.pomodorosInSession = 0]

setModeOn(s, m) ==
  LET duration == CASE m = WORK -> s.settings.workDuration * MinuteLength
                    [] m = SHORT_BREAK -> s.settings.shortBreakDuration * MinuteLength
                    [] m = LONG_BREAK -> s.settings.longBreakDuration * MinuteLength
  IN [s EXCEPT !.mode = m, !.status = IDLE, !.startTime = NULL,
               !.remainingSeconds = duration, !.totalDuration = duration]

assignTaskOn(s, taskId) == [s EXCEPT !.currentTaskId = taskId]

\* Mutant: the long break taken one pomodoro early.
shouldTakeLongBreakEarly(pomodoros, interval) ==
  (pomodoros + 1) % interval = 0

\* pomodorosInSession > 0 && pomodorosInSession % longBreakInterval === 0
shouldTakeLongBreak(pomodoros, interval) ==
  pomodoros > 0 /\ pomodoros % interval = 0

\* tasks.find((t) => t.id === id): the index of the first match, 0 for none.
FindTask(ts, id) ==
  IF \E i \in 1..Len(ts) : ts[i].id = id
  THEN CHOOSE i \in 1..Len(ts) : ts[i].id = id /\ \A j \in 1..(i - 1) : ts[j].id # id
  ELSE 0

\* Mutant: the count goes up but a Pending task stays Pending.
BumpTaskCountOnly(task) ==
  [task EXCEPT !.completedPomodoros = @ + 1]

\* task.completedPomodoros += 1; PENDING becomes IN_PROGRESS
BumpTask(task) ==
  [task EXCEPT !.completedPomodoros = @ + 1,
               !.status = IF @ = PENDING THEN IN_PROGRESS ELSE @]

\* Mutant: the break's auto-start reads the flag meant for Work.
completePomodoroWorkFlagOn(s, t) ==
  LET session == [ id |-> Len(s.sessions) + 1, mode |-> s.mode, taskId |-> s.currentTaskId,
                   startedAt |-> t - getDurationForMode(s.mode, s.settings) * ClockResolution,
                   completedAt |-> t,
                   duration |-> getDurationForMode(s.mode, s.settings),
                   wasCompleted |-> TRUE ]
      pushed == [s EXCEPT !.sessions = Append(@, session)]
  IN IF s.mode = WORK
     THEN LET count == s.pomodorosInSession + 1
              i == IF Truthy(s.currentTaskId) THEN FindTask(s.tasks, s.currentTaskId) ELSE 0
              newTasks == IF i # 0 THEN [s.tasks EXCEPT ![i] = BumpTask(@)] ELSE s.tasks
              long == shouldTakeLongBreak(count, s.settings.longBreakInterval)
              duration == IF long THEN s.settings.longBreakDuration * MinuteLength
                                  ELSE s.settings.shortBreakDuration * MinuteLength
          IN [pushed EXCEPT
                !.pomodorosInSession = count,
                !.tasks = newTasks,
                !.mode = IF long THEN LONG_BREAK ELSE SHORT_BREAK,
                !.remainingSeconds = duration,
                !.totalDuration = duration,
                !.status = IF s.settings.autoStartWork THEN RUNNING ELSE IDLE,
                !.startTime = IF s.settings.autoStartWork THEN t ELSE NULL]
     ELSE LET duration == s.settings.workDuration * MinuteLength
          IN [pushed EXCEPT
                !.mode = WORK,
                !.remainingSeconds = duration,
                !.totalDuration = duration,
                !.pomodorosInSession = IF s.mode = LONG_BREAK THEN 0 ELSE @,
                !.status = IF s.settings.autoStartWork THEN RUNNING ELSE IDLE,
                !.startTime = IF s.settings.autoStartWork THEN t ELSE NULL]

completePomodoroOn(s, t) ==
  LET session == [ id |-> Len(s.sessions) + 1, mode |-> s.mode, taskId |-> s.currentTaskId,
                   startedAt |-> t - getDurationForMode(s.mode, s.settings) * ClockResolution,
                   completedAt |-> t,
                   duration |-> getDurationForMode(s.mode, s.settings),
                   wasCompleted |-> TRUE ]
      pushed == [s EXCEPT !.sessions = Append(@, session)]
  IN IF s.mode = WORK
     THEN LET count == s.pomodorosInSession + 1
              i == IF Truthy(s.currentTaskId) THEN FindTask(s.tasks, s.currentTaskId) ELSE 0
              newTasks == IF i # 0 THEN [s.tasks EXCEPT ![i] = BumpTask(@)] ELSE s.tasks
              long == shouldTakeLongBreak(count, s.settings.longBreakInterval)
              duration == IF long THEN s.settings.longBreakDuration * MinuteLength
                                  ELSE s.settings.shortBreakDuration * MinuteLength
          IN [pushed EXCEPT
                !.pomodorosInSession = count,
                !.tasks = newTasks,
                !.mode = IF long THEN LONG_BREAK ELSE SHORT_BREAK,
                !.remainingSeconds = duration,
                !.totalDuration = duration,
                !.status = IF s.settings.autoStartBreaks THEN RUNNING ELSE IDLE,
                !.startTime = IF s.settings.autoStartBreaks THEN t ELSE NULL]
     ELSE LET duration == s.settings.workDuration * MinuteLength
          IN [pushed EXCEPT
                !.mode = WORK,
                !.remainingSeconds = duration,
                !.totalDuration = duration,
                !.pomodorosInSession = IF s.mode = LONG_BREAK THEN 0 ELSE @,
                !.status = IF s.settings.autoStartWork THEN RUNNING ELSE IDLE,
                !.startTime = IF s.settings.autoStartWork THEN t ELSE NULL]

\* ------------------------------------------------------------ tasks slice
\* A task is [id, estimatedPomodoros, order, createdAt, completedPomodoros,
\* status, completedAt]; title and description are free text and left out.

\* { ...state.tasks[index], ...updates }
MergeTask(task, updates) ==
  [f \in DOMAIN task |-> IF f \in DOMAIN updates THEN updates[f] ELSE task[f]]

\* addTask(taskData), uuidv4() having returned id
addTaskOn(s, taskData, id, t) ==
  [s EXCEPT !.tasks = Append(@, [ id |-> id,
                                  estimatedPomodoros |-> taskData.estimatedPomodoros,
                                  order |-> taskData.order,
                                  createdAt |-> t,
                                  completedPomodoros |-> 0,
                                  status |-> PENDING,
                                  completedAt |-> NULL ])]

updateTaskOn(s, id, updates) ==
  LET index == FindTask(s.tasks, id)
  IN IF index # 0
     THEN [s EXCEPT !.tasks[index] = MergeTask(@, updates)]
     ELSE s

\* state.tasks.filter((t) => t.id !== id)
deleteTaskOn(s, id) ==
  [s EXCEPT !.tasks = SelectSeq(@, LAMBDA task : task.id # id)]

completeTaskOn(s, id, t) ==
  LET i == FindTask(s.tasks, id)
  IN IF i # 0
     THEN [s EXCEPT !.tasks[i].status = COMPLETED, !.tasks[i].completedAt = t]
     ELSE s

incrementTaskPomodoroOn(s, id) ==
  LET i == FindTask(s.tasks, id)
  IN IF i # 0 THEN [s EXCEPT !.tasks[i] = BumpTask(@)] ELSE s

\* Array.prototype.splice's start index: a negative one counts from the end,
\* and the result is clamped to 0..len.
SpliceIndex(i, len) == IF i < 0 THEN Max(len + i, 0) ELSE Min(i, len)

\* array.splice(k, 1) on a 0-based position k < Len(ts): what is left
RemoveAt(ts, k) == SubSeq(ts, 1, k) \o SubSeq(ts, k + 2, Len(ts))

\* array.splice(k, 0, x) on a 0-based position k <= Len(ts)
InsertAt(ts, k, x) == SubSeq(ts, 1, k) \o << x >> \o SubSeq(ts, k + 1, Len(ts))

\* tasks.forEach((task, index) => { task.order = index })
Renumber(ts) == [i \in 1..Len(ts) |-> [ts[i] EXCEPT !.order = i - 1]]

\* Mutant: the move without the renumbering.
reorderTasksOutcomeNoRenumber(ts, startIndex, endIndex) ==
  LET st == SpliceIndex(startIndex, Len(ts))
  IN IF st < Len(ts)
     THEN LET rest == RemoveAt(ts, st)
          IN [ raised |-> FALSE,
               tasks |-> InsertAt(rest, SpliceIndex(endIndex, Len(rest)), ts[st + 1]) ]
     ELSE [raised |-> TRUE, tasks |-> ts]

\* The body of reorderTasks.  When splice(startIndex, 1) removes nothing,
\* removed is undefined, the second splice inserts it, and the forEach raises a
\* TypeError on it: immer drops the draft and the store keeps its tasks.
reorderTasksOutcome(ts, startIndex, endIndex) ==
  LET st == SpliceIndex(startIndex, Len(ts))
  IN IF st < Len(ts)
     THEN LET rest == RemoveAt(ts, st)
          IN [ raised |-> FALSE,
               tasks |-> Renumber(InsertAt(rest, SpliceIndex(endIndex, Len(rest)), ts[st + 1])) ]
     ELSE [raised |-> TRUE, tasks |-> ts]

reorderTasksOn(s, startIndex, endIndex) ==
  [s EXCEPT !.tasks = reorderTasksOutcome(@, startIndex, endIndex).tasks]

\* tasks.find((t) => t.status !== COMPLETED) || null: its position, 0 for null
getNextTask(ts) ==
  IF \E i \in 1..Len(ts) : ts[i].status # COMPLETED
  THEN CHOOSE i \in 1..Len(ts) :
         ts[i].status # COMPLETED /\ \A j \in 1..(i - 1) : ts[j].status = COMPLETED
  ELSE 0

\* --------------------------------------------------------- sessions slice
\* { ...sessionData, id: uuidv4() }
NewSession(s, sessionData) ==
  [ id |-> Len(s.sessions) + 1, mode |-> sessionData.mode, taskId |-> sessionData.taskId,
    startedAt |-> sessionData.startedAt, completedAt |-> sessionData.completedAt,
    duration |-> sessionData.duration, wasCompleted |-> sessionData.wasCompleted ]

\* Mutant: the record put in front of the log.
addSessionFrontOn(s, sessionData) ==
  [s EXCEPT !.sessions = << NewSession(s, sessionData) >> \o @]

addSessionOn(s, sessionData) ==
  [s EXCEPT !.sessions = Append(@, NewSession(s, sessionData))]

\* ------------------------------------------------- the store's operations
startTimer == SetStore(startTimerOn(Store, now)) /\ UNCHANGED << now, script, uiVars >>
pauseTimer == SetStore(pauseTimerOn(Store, now)) /\ UNCHANGED << now, script, uiVars >>
resetTimer == SetStore(resetTimerOn(Store)) /\ UNCHANGED << now, script, uiVars >>
tick == SetStore(tickOn(Store, now)) /\ UNCHANGED << now, script, uiVars >>
syncTimer == SetStore(syncTimerOn(Store, now)) /\ UNCHANGED << now, script, uiVars >>
setMode == \E m \in TimerMode : SetStore(setModeOn(Store, m)) /\ UNCHANGED << now, script, uiVars >>
completePomodoro == SetStore(completePomodoroOn(Store, now)) /\ UNCHANGED << now, script, uiVars >>

\* The wall clock moves forward by any amount: triggers are late, missed or
\* coalesced at will.
Advance ==
  /\ \E d \in 1..MaxAdvance : now + d <= MaxNow /\ now' = now + d
  /\ UNCHANGED << storeVars, script, uiVars >>

\* ------------------------------------------------------------------ Init
\* create(): the literal initial state; persist then merges the stored
\* settings over it (tasks too; none are stored here).
Created ==
  /\ now = 1
  /\ status = IDLE
  /\ mode = WORK
  /\ remainingSeconds = DEFAULT_WORK_DURATION
  /\ currentTaskId = NULL
  /\ pomodorosInSession = 0
  /\ startTime = NULL
  /\ totalDuration = DEFAULT_WORK_DURATION
  /\ tasks = << >>
  /\ sessions = << >>

Init ==
  /\ Created
  /\ settings \in PersistedSettings \cup {defaultSettings}
  /\ script = NoScript
  /\ NoUI

\* Any sequence of the timer's operations, at any times.
Next ==
  \/ Advance
  \/ startTimer
  \/ pauseTimer
  \/ resetTimer
  \/ tick
  \/ syncTimer
  \/ setMode
  \/ (Len(sessions) < MaxSessions /\ completePomodoro)

Spec == Init /\ [][Next]_vars

\* -------------------------------------------------------- the task tracker
MaxTasks == 3
MaxTaskId == 4
MaxPomodoros == 1

TaskIds == 1..MaxTaskId

\* Indices a caller can pass to reorderTasks: in range, one past either end.
ReorderIndices == -1..MaxTasks

\* Ids nothing in the store refers to.
FreshIds ==
  { id \in TaskIds :
      /\ \A i \in 1..Len(tasks) : tasks[i].id # id
      /\ currentTaskId # id
      /\ \A i \in 1..Len(sessions) : sessions[i].taskId # id }

\* uuidv4(): a fresh id.  Ids carry no meaning, so the least unused one stands
\* for any of them.
uuidv4 == CHOOSE id \in FreshIds : \A other \in FreshIds : id <= other

\* TasksPage.handleSaveTask for a new task: addTask({...taskData, order: tasks.length})
addTask ==
  /\ Len(tasks) < MaxTasks
  /\ FreshIds # {}
  /\ SetStore(addTaskOn(Store, [estimatedPomodoros |-> 1, order |-> Len(tasks)], uuidv4, now))
  /\ UNCHANGED << now, script, uiVars >>

\* TasksPage.handleStatusChange: TaskItem passes PENDING or COMPLETED
handleStatusChange ==
  /\ \E id \in TaskIds, st \in {PENDING, COMPLETED} :
       SetStore(updateTaskOn(Store, id,
                  [status |-> st, completedAt |-> IF st = COMPLETED THEN now ELSE NULL]))
  /\ UNCHANGED << now, script, uiVars >>

\* updateTask(id, updates) with a Partial<Task> that carries the count
updateTask ==
  /\ \E id \in TaskIds, n \in 0..MaxPomodoros :
       SetStore(updateTaskOn(Store, id, [completedPomodoros |-> n]))
  /\ UNCHANGED << now, script, uiVars >>

deleteTask ==
  /\ \E id \in TaskIds : SetStore(deleteTaskOn(Store, id))
  /\ UNCHANGED << now, script, uiVars >>

completeTask ==
  /\ \E id \in TaskIds : SetStore(completeTaskOn(Store, id, now))
  /\ UNCHANGED << now, script, uiVars >>

\* The count is capped at MaxPomodoros.
incrementTaskPomodoro ==
  /\ \E id \in TaskIds :
       /\ \A i \in 1..Len(tasks) : tasks[i].id = id => tasks[i].completedPomodoros < MaxPomodoros
       /\ SetStore(incrementTaskPomodoroOn(Store, id))
  /\ UNCHANGED << now, script, uiVars >>

reorderTasks ==
  /\ \E startIndex \in ReorderIndices, endIndex \in ReorderIndices :
       SetStore(reorderTasksOn(Store, startIndex, endIndex))
  /\ UNCHANGED << now, script, uiVars >>

\* TimerPage.handleSelectTask (a task of the list) and handleClearTask (null)
assignTask ==
  /\ \E id \in {tasks[i].id : i \in 1..Len(tasks)} \cup {NULL} :
       SetStore(assignTaskOn(Store, id))
  /\ UNCHANGED << now, script, uiVars >>

\* The task list driven by the tasks page and the store's task actions.
InitTasks ==
  /\ Created
  /\ settings = defaultSettings
  /\ script = NoScript
  /\ NoUI

NextTasks ==
  \/ addTask
  \/ handleStatusChange
  \/ deleteTask
  \/ completeTask
  \/ incrementTaskPomodoro
  \/ reorderTasks

SpecTasks == InitTasks /\ [][NextTasks]_vars

\* ------------------------------------------- timer, tasks and session log
MaxLinkSessions == 3

\* TimerPage.handleCompleteTask: the assigned task is marked Completed and the
\* next available task, if it is another one, is assigned.
handleCompleteTaskOn(s, t) ==
  IF Truthy(s.currentTaskId)
  THEN LET updated == updateTaskOn(s, s.currentTaskId,
                                   [status |-> COMPLETED, completedAt |-> t])
           next == getNextTask(updated.tasks)
       IN IF next # 0 /\ updated.tasks[next].id # s.currentTaskId
          THEN assignTaskOn(updated, updated.tasks[next].id)
          ELSE assignTaskOn(updated, NULL)
  ELSE s

handleCompleteTask ==
  /\ SetStore(handleCompleteTaskOn(Store, now))
  /\ UNCHANGED << now, script, uiVars >>

\* Records a caller can hand to addSession: an abandoned interval of the
\* current mode and task.
SessionInputs ==
  [ mode : {mode}, taskId : {currentTaskId}, startedAt : {now}, completedAt : {NULL},
    duration : {0}, wasCompleted : {FALSE} ]

addSession ==
  /\ \E sessionData \in SessionInputs : SetStore(addSessionOn(Store, sessionData))
  /\ UNCHANGED << now, script, uiVars >>

\* A task persist can rehydrate (partialize keeps tasks): Pending, as addTask
\* made it in an earlier session.
PersistedTask(id) ==
  [ id |-> id, estimatedPomodoros |-> 1, order |-> id - 1, createdAt |-> 0,
    completedPomodoros |-> 0, status |-> PENDING, completedAt |-> NULL ]

\* The timer, the assignment and the session log, in any order; the clock
\* stands still.
InitLog ==
  /\ now = 1
  /\ status = IDLE /\ mode = WORK
  /\ remainingSeconds = DEFAULT_WORK_DURATION /\ totalDuration = DEFAULT_WORK_DURATION
  /\ currentTaskId = NULL /\ pomodorosInSession = 0 /\ startTime = NULL
  /\ tasks \in { << >>, << PersistedTask(1) >> }
  /\ sessions = << >>
  /\ settings = defaultSettings
  /\ script = NoScript
  /\ NoUI

LogOpen == Len(sessions) < MaxLinkSessions

NextLog ==
  \/ startTimer
  \/ pauseTimer
  \/ resetTimer
  \/ tick
  \/ syncTimer
  \/ setMode
  \/ assignTask
  \/ (LogOpen /\ completePomodoro)
  \/ (LogOpen /\ addSession)

SpecLog == InitLog /\ [][NextLog]_vars

\* Two rehydrated tasks, the assignment, the completions and the task actions,
\* in any order.
InitProgress ==
  /\ now = 1
  /\ status = IDLE /\ mode = WORK
  /\ remainingSeconds = DEFAULT_WORK_DURATION /\ totalDuration = DEFAULT_WORK_DURATION
  /\ currentTaskId = NULL /\ pomodorosInSession = 0 /\ startTime = NULL
  /\ tasks = << PersistedTask(1), PersistedTask(2) >>
  /\ sessions = << >>
  /\ settings = defaultSettings
  /\ script = NoScript
  /\ NoUI

ProgressOpen == Len(sessions) < MaxLinkSessions

NextProgress ==
  \/ assignTask
  \/ (ProgressOpen /\ completePomodoro)
  \/ handleStatusChange
  \/ handleCompleteTask
  \/ updateTask
  \/ deleteTask
  \/ completeTask
  \/ incrementTaskPomodoro
  \/ reorderTasks

SpecProgress == InitProgress /\ [][NextProgress]_vars

\* --------------------------------------------------------- daily statistics
\* date-fns on the model's clock: a calendar day lasts DayLength clock units,
\* and format(date, 'yyyy-MM-dd') names a day by its number.
MaxDays == 3
MaxClockDays == 1
MaxStatsSessions == 3
DayLength == 24 * 60 * MinuteLength * ClockResolution

subDays(date, amount) == date - amount * DayLength
startOfDay(date) == date - (date % DayLength)
endOfDay(date) == startOfDay(date) + DayLength - 1
isWithinInterval(date, start, end) == start <= date /\ date <= end
format(date) == date \div DayLength

\* Mutant: the minutes are cut off instead of rounded.
MathFloor(n, d) == n \div d

\* Math.round(n / d): the nearest integer, a half going up
MathRound(n, d) == (2 * n + d) \div (2 * d)

RECURSIVE SumDuration(_)
\* daySessions.reduce((acc, s) => acc + s.duration, 0)
SumDuration(ss) ==
  IF ss = << >> THEN 0 ELSE ss[1].duration + SumDuration(Tail(ss))

\* new Set(daySessions.map((s) => s.taskId).filter(Boolean))
uniqueTaskIds(ss) ==
  { id \in { ss[i].taskId : i \in 1..Len(ss) } : Truthy(id) }

\* one pass of the loop of getDailyStats: the entry for the day i days ago
DayEntry(ss, t, i) ==
  LET date == subDays(t, i)
      dayStart == startOfDay(date)
      dayEnd == endOfDay(date)
      daySessions == SelectSeq(ss, LAMBDA x :
                       /\ x.wasCompleted
                       /\ x.mode = WORK
                       /\ isWithinInterval(x.startedAt, dayStart, dayEnd))
  IN [ date |-> format(date),
       completedPomodoros |-> Len(daySessions),
       totalWorkMinutes |-> MathRound(SumDuration(daySessions), MinuteLength),
       tasksCompleted |-> Cardinality(uniqueTaskIds(daySessions)) ]

Reverse(seq) == [ k \in 1..Len(seq) |-> seq[Len(seq) + 1 - k] ]

RECURSIVE StatsLoop(_, _, _, _)
\* for (let i = 0; i < days; i++) stats.push(...)
StatsLoop(ss, t, i, days) ==
  IF i < days THEN << DayEntry(ss, t, i) >> \o StatsLoop(ss, t, i + 1, days) ELSE << >>

getDailyStats(ss, t, days) == Reverse(StatsLoop(ss, t, 0, days))

\* addSession() with a completed record whose start lies on a day boundary and
\* whose duration is not a whole number of minutes, or with an abandoned one
StatsSessionInputs ==
  [ mode : {mode}, taskId : {currentTaskId},
    startedAt : {startOfDay(now), startOfDay(now) - 1}, completedAt : {now},
    duration : {1, MinuteLength + 1}, wasCompleted : {TRUE} ]
  \cup
  [ mode : {mode}, taskId : {currentTaskId}, startedAt : {now}, completedAt : {NULL},
    duration : {1}, wasCompleted : {FALSE} ]

addSessionRecord ==
  /\ \E sessionData \in StatsSessionInputs : SetStore(addSessionOn(Store, sessionData))
  /\ UNCHANGED << now, script, uiVars >>

\* the clock passes into the next calendar day
nextDay ==
  /\ now + DayLength < (MaxClockDays + 1) * DayLength
  /\ now' = now + DayLength
  /\ UNCHANGED << storeVars, script, uiVars >>

\* The log as the app fills it over several days: the store is rehydrated
\* shortly after midnight, intervals are completed with or without a task
\* assigned, records are added, a day passes.
InitStats ==
  /\ now = 1
  /\ status = IDLE /\ mode = WORK
  /\ remainingSeconds = DEFAULT_WORK_DURATION /\ totalDuration = DEFAULT_WORK_DURATION
  /\ currentTaskId = NULL /\ pomodorosInSession = 0 /\ startTime = NULL
  /\ tasks = << PersistedTask(1), PersistedTask(2) >>
  /\ sessions = << >>
  /\ settings = defaultSettings
  /\ script = NoScript
  /\ NoUI

StatsOpen == Len(sessions) < MaxStatsSessions

NextStats ==
  \/ assignTask
  \/ (StatsOpen /\ completePomodoro)
  \/ (StatsOpen /\ addSessionRecord)
  \/ nextDay

SpecStats == InitStats /\ [][NextStats]_vars

\* ------------------------------------------------- settings and reloads
\* { ...state.settings.timer, ...timerSettings }
MergeSettings(timer, timerSettings) ==
  [f \in DOMAIN timer |-> IF f \in DOMAIN timerSettings THEN timerSettings[f] ELSE timer[f]]

updateTimerSettingsOn(s, timerSettings) ==
  [s EXCEPT !.settings = MergeSettings(@, timerSettings)]

\* what persist writes to localStorage
partialize(s) == [ settings |-> s.settings, tasks |-> s.tasks ]

\* create() on a page load: the literal initial state, with the stored
\* settings and tasks merged over it
rehydrateOn(stored) ==
  [ status |-> IDLE, mode |-> WORK, remainingSeconds |-> DEFAULT_WORK_DURATION,
    currentTaskId |-> NULL, pomodorosInSession |-> 0, startTime |-> NULL,
    totalDuration |-> DEFAULT_WORK_DURATION,
    tasks |-> stored.tasks, settings |-> stored.settings, sessions |-> << >> ]

\* The settings form: a new work or short break length, or auto-start of breaks
TimerSettingsInputs ==
  { [workDuration |-> w] : w \in {1, 2, 25} }
    \cup { [shortBreakDuration |-> 1] }
    \cup { [autoStartBreaks |-> b] : b \in BOOLEAN }

updateTimerSettings ==
  /\ \E timerSettings \in TimerSettingsInputs :
       SetStore(updateTimerSettingsOn(Store, timerSettings))
  /\ UNCHANGED << now, script, uiVars >>

\* the page is loaded again
reload ==
  /\ SetStore(rehydrateOn(partialize(Store)))
  /\ UNCHANGED << now, script, uiVars >>

InitSettings ==
  /\ Created
  /\ settings = defaultSettings
  /\ script = NoScript
  /\ NoUI

NextSettings ==
  \/ Advance
  \/ startTimer
  \/ pauseTimer
  \/ resetTimer
  \/ tick
  \/ setMode
  \/ updateTimerSettings
  \/ reload

SpecSettings == InitSettings /\ [][NextSettings]_vars

\* ------------------------------------------------- an undisturbed countdown
\* The countdown left alone: while the timer is not Running it is armed by a
\* reset or a mode switch and the primary button starts it (if the clock's
\* range still holds the whole interval); once it is Running the clock
\* advances, the page's interval delivers tick() and a visibility change
\* delivers syncTimer(), and nobody pauses, resets or switches the mode.
armCountdown ==
  /\ status # RUNNING
  /\ (resetTimer \/ setMode)

startCountdown ==
  /\ status # RUNNING
  /\ now + remainingSeconds * ClockResolution <= MaxNow
  /\ startTimer

InitLive ==
  /\ Created
  /\ settings \in PersistedSettings
  /\ script = NoScript
  /\ NoUI

NextLive ==
  \/ Advance
  \/ armCountdown
  \/ startCountdown
  \/ tick
  \/ syncTimer

\* setInterval keeps calling tick() while the timer is Running, and time passes.
SpecLive ==
  InitLive /\ [][NextLive]_vars /\ WF_vars(Advance) /\ WF_vars(tick)

\* ------------------------------------------------------- cadence runs
\* Successive completions under a fixed longBreakInterval and no manual
\* setMode: starting, pausing, resetting, ticking and syncing in between, with
\* the clock standing still (the cadence counts completions, not time).
InitCadence ==
  /\ Created
  /\ settings \in CadenceSettings \cup {defaultSettings}
  /\ script = NoScript
  /\ NoUI

NextCadence ==
  \/ startTimer
  \/ pauseTimer
  \/ resetTimer
  \/ tick
  \/ syncTimer
  \/ (Len(sessions) < MaxCadenceSessions /\ completePomodoro)

SpecCadence == InitCadence /\ [][NextCadence]_vars

\* ------------------------------------------------------- the components
(***************************************************************************)
(* The store is driven by a component: TimerPage, or a component using the *)
(* useTimer hook.  A store update re-renders the component in the same     *)
(* task (zustand's subscription renders synchronously and React runs the   *)
(* effects of such a render before the next event), so the interval, the   *)
(* visibility signal and the controls act only on a component that has     *)
(* rendered the current store (InSync); the render and the effects it runs *)
(* are one step, taken before the clock moves on.                          *)
(***************************************************************************)
MaxUISessions == 2

\* Short durations, with and without auto-start.
UISettings ==
  [ workDuration : {2}, shortBreakDuration : {1}, longBreakDuration : {3},
    longBreakInterval : {2}, autoStartBreaks : BOOLEAN, autoStartWork : BOOLEAN ]

InSync == rStatus = status /\ rMode = mode /\ rRemaining = remainingSeconds

\* useEffect deps [remainingSeconds, status]
PageDepsChanged == rRemaining # remainingSeconds \/ rStatus # status

\* Mutant: completion detected from the status alone.
timerJustCompletedAnyIdle(previousRemaining, remaining, st) ==
  previousRemaining > 0 /\ st = IDLE

\* wasRunning && isNowZero && status === TimerStatus.IDLE
timerJustCompleted(previousRemaining, remaining, st) ==
  previousRemaining > 0 /\ remaining = 0 /\ st = IDLE

\* TimerPage re-renders and runs its effects: the tick effect re-creates or
\* clears the interval, the completion effect calls handleTimerComplete.
PageRender ==
  /\ ui = "page"
  /\ ~InSync
  /\ rStatus' = status /\ rMode' = mode /\ rRemaining' = remainingSeconds
  /\ intervalId' = (status = RUNNING)
  /\ IF PageDepsChanged
     THEN /\ previousRemainingRef' = remainingSeconds
          /\ IF timerJustCompleted(previousRemainingRef, remainingSeconds, status)
             THEN SetStore(completePomodoroOn(Store, now))
             ELSE UNCHANGED storeVars
     ELSE UNCHANGED << previousRemainingRef, storeVars >>
  /\ UNCHANGED << now, script, ui, rTotal, completionHandledRef, targetEndTimeRef, intervalRef >>

\* window.setInterval(() => tick(), 1000)
PageInterval ==
  /\ ui = "page" /\ InSync
  /\ intervalId
  /\ SetStore(tickOn(Store, now))
  /\ UNCHANGED << now, script, uiVars >>

\* handleVisibilityChange with the document visible
PageVisible ==
  /\ ui = "page" /\ InSync
  /\ IF rStatus = RUNNING THEN SetStore(syncTimerOn(Store, now)) ELSE UNCHANGED storeVars
  /\ UNCHANGED << now, script, uiVars >>

\* TimerControls.handlePrimaryClick
handlePrimaryClick ==
  /\ ui \in {"page", "hook"} /\ InSync
  /\ IF rStatus = RUNNING
     THEN SetStore(pauseTimerOn(Store, now))
     ELSE SetStore(startTimerOn(Store, now))
  /\ UNCHANGED << now, script, uiVars >>

\* The reset button: onClick={resetTimer}
handleResetClick ==
  /\ ui \in {"page", "hook"} /\ InSync
  /\ SetStore(resetTimerOn(Store))
  /\ UNCHANGED << now, script, uiVars >>

\* ModeSelector.handleModeChange
handleModeChange ==
  /\ ui \in {"page", "hook"} /\ InSync
  /\ \E m \in TimerMode : m # rMode /\ SetStore(setModeOn(Store, m))
  /\ UNCHANGED << now, script, uiVars >>

\* Math.ceil(a / b) for a > 0
CeilDiv(a, b) == (a + b - 1) \div b

\* for (let i = 0; i < ticksNeeded && i < 10; i++) tick()
RECURSIVE tickTimes(_, _, _)
tickTimes(s, t, n) == IF n <= 0 THEN s ELSE tickTimes(tickOn(s, t), t, n - 1)

\* useTimer.handleCompletion on store s with the latch as it is: the store and
\* the refs it leaves.
handleCompletion(s, latch, target, t) ==
  IF latch
  THEN [store |-> s, latch |-> latch, target |-> target]
  ELSE [store |-> completePomodoroOn(s, t), latch |-> TRUE, target |-> NULL]

\* useTimer.performTick
performTick(s, latch, target, t) ==
  IF Truthy(target)
  THEN LET msRemaining == target - t
       IN IF msRemaining <= 0
          THEN handleCompletion(tickOn(s, t), latch, target, t)
          ELSE LET expectedSecondsRemaining == CeilDiv(msRemaining, ClockResolution)
                   currentSeconds == s.remainingSeconds
                   ticksNeeded == currentSeconds - expectedSecondsRemaining
                   drift == IF ticksNeeded >= 0 THEN ticksNeeded ELSE 0 - ticksNeeded
               IN [ store |-> IF drift > 1 THEN tickTimes(s, t, Min(ticksNeeded, 10))
                                           ELSE tickOn(s, t),
                    latch |-> latch, target |-> target ]
  ELSE [store |-> tickOn(s, t), latch |-> latch, target |-> target]

SetHook(r) ==
  /\ SetStore(r.store)
  /\ completionHandledRef' = r.latch
  /\ targetEndTimeRef' = r.target

\* setInterval(performTick, 1000)
HookInterval ==
  /\ ui = "hook" /\ InSync
  /\ intervalRef
  /\ SetHook(performTick(Store, completionHandledRef, targetEndTimeRef, now))
  /\ UNCHANGED << now, script, ui, rStatus, rMode, rRemaining, rTotal,
                  previousRemainingRef, intervalId, intervalRef >>

\* useTimer's handleVisibilityChange with the document visible
HookVisible ==
  /\ ui = "hook" /\ InSync
  /\ IF rStatus = RUNNING /\ Truthy(targetEndTimeRef) /\ targetEndTimeRef - now <= 0
     THEN SetHook(handleCompletion(Store, completionHandledRef, targetEndTimeRef, now))
     ELSE UNCHANGED << storeVars, completionHandledRef, targetEndTimeRef >>
  /\ UNCHANGED << now, script, ui, rStatus, rMode, rRemaining, rTotal,
                  previousRemainingRef, intervalId, intervalRef >>

\* The component using useTimer renders (a store update, or the state of
\* useWakeLock / useNotifications, whose fresh return objects give
\* handleCompletion, performTick and startInterval a new identity on every
\* render) and runs its effects in order: the interval effect (cleanup
\* stopInterval, then startInterval when Running), the zero effect, and the
\* latch reset when mode or totalDuration changed.
HookRender ==
  /\ ui = "hook"
  /\ LET newTotal == getDurationForMode(mode, settings)
         \* effect 1: stopInterval(); if RUNNING startInterval()
         latch1 == IF status = RUNNING THEN FALSE ELSE completionHandledRef
         target1 == IF status = RUNNING THEN now + remainingSeconds * ClockResolution ELSE NULL
         \* effect 3: remainingSeconds === 0 && IDLE && !completionHandledRef.current
         zero == remainingSeconds = 0 /\ status = IDLE /\ ~latch1
         r == IF zero THEN handleCompletion(Store, latch1, target1, now)
                      ELSE [store |-> Store, latch |-> latch1, target |-> target1]
         \* effect 6: deps [mode, totalDuration]
         latch6 == IF rMode # mode \/ rTotal # newTotal THEN FALSE ELSE r.latch
     IN /\ rStatus' = status /\ rMode' = mode /\ rRemaining' = remainingSeconds
        /\ rTotal' = newTotal
        /\ intervalRef' = (status = RUNNING)
        /\ SetStore(r.store)
        /\ completionHandledRef' = latch6
        /\ targetEndTimeRef' = r.target
  /\ UNCHANGED << now, script, ui, previousRemainingRef, intervalId >>

\* The component is mounted on the created store and has rendered once.
InitUI ==
  /\ Created
  /\ settings \in UISettings
  /\ script = NoScript
  /\ ui \in {"page", "hook"}
  /\ rStatus = status /\ rMode = mode /\ rRemaining = remainingSeconds
  /\ rTotal = getDurationForMode(mode, settings)
  /\ previousRemainingRef = remainingSeconds
  /\ intervalId = FALSE
  /\ completionHandledRef = FALSE /\ targetEndTimeRef = NULL /\ intervalRef = FALSE

\* The run is cut after MaxUISessions completions.
UIOpen == Len(sessions) < MaxUISessions

NextUI ==
  \/ (UIOpen /\ InSync /\ Advance)
  \/ (UIOpen /\ PageRender)
  \/ (UIOpen /\ PageInterval)
  \/ (UIOpen /\ PageVisible)
  \/ (UIOpen /\ HookRender)
  \/ (UIOpen /\ HookInterval)
  \/ (UIOpen /\ HookVisible)
  \/ (UIOpen /\ handlePrimaryClick)
  \/ (UIOpen /\ handleResetClick)
  \/ (UIOpen /\ handleModeChange)

SpecUI == InitUI /\ [][NextUI]_vars

\* ------------------------------------------------- pause/resume round trip
\* The scenario of the pause/resume property: an Idle timer holding R seconds is
\* started, D clock units (less than R seconds) pass, it is paused and started
\* again, the rest of the R seconds pass, and one tick is delivered.
InitRoundTrip ==
  /\ Created
  /\ settings \in PersistedSettings \cup {defaultSettings}
  /\ script = [pc |-> "created", R |-> 0, D |-> 0]
  /\ NoUI

RT_Arm ==
  /\ script.pc = "created"
  /\ \E m \in TimerMode : SetStore(setModeOn(Store, m))
  /\ script' = [script EXCEPT !.pc = "idle"]
  /\ UNCHANGED << now, uiVars >>

RT_Start ==
  /\ script.pc \in {"created", "idle"}
  /\ \E d \in 1..(remainingSeconds * ClockResolution - 1) :
        script' = [pc |-> "running", R |-> remainingSeconds, D |-> d]
  /\ SetStore(startTimerOn(Store, now))
  /\ UNCHANGED << now, uiVars >>

RT_Wait ==
  /\ script.pc = "running"
  /\ now' = now + script.D
  /\ script' = [script EXCEPT !.pc = "waited"]
  /\ UNCHANGED << storeVars, uiVars >>

RT_Pause ==
  /\ script.pc = "waited"
  /\ SetStore(pauseTimerOn(Store, now))
  /\ script' = [script EXCEPT !.pc = "paused"]
  /\ UNCHANGED << now, uiVars >>

RT_Resume ==
  /\ script.pc = "paused"
  /\ SetStore(startTimerOn(Store, now))
  /\ script' = [script EXCEPT !.pc = "resumed"]
  /\ UNCHANGED << now, uiVars >>

RT_WaitRest ==
  /\ script.pc = "resumed"
  /\ now' = now + (script.R * ClockResolution - script.D)
  /\ script' = [script EXCEPT !.pc = "elapsed"]
  /\ UNCHANGED << storeVars, uiVars >>

RT_Tick ==
  /\ script.pc = "elapsed"
  /\ SetStore(tickOn(Store, now))
  /\ script' = [script EXCEPT !.pc = "done"]
  /\ UNCHANGED << now, uiVars >>

NextRoundTrip ==
  \/ RT_Arm
  \/ RT_Start
  \/ RT_Wait
  \/ RT_Pause
  \/ RT_Resume
  \/ RT_WaitRest
  \/ RT_Tick

SpecRoundTrip == InitRoundTrip /\ [][NextRoundTrip]_vars

\* ------------------------------------------------- measured intervals
\* An interval armed with R seconds by a mode switch, then driven by any
\* sequence of startTimer (also repeated), pauseTimer, tick and syncTimer at
\* any times, with no reset and no further setMode.  The script measures it:
\* D is the clock time spent with status Running since the arming, P the
\* number of pauses of a Running timer.
MaxPauses == 2

InitMeasured ==
  /\ Created
  /\ settings \in PersistedSettings
  /\ script = [pc |-> "created", R |-> 0, D |-> 0, P |-> 0]
  /\ NoUI

armInterval ==
  /\ script.pc = "created"
  /\ \E m \in TimerMode : SetStore(setModeOn(Store, m))
  /\ script' = [pc |-> "armed", R |-> remainingSeconds', D |-> 0, P |-> 0]
  /\ UNCHANGED << now, uiVars >>

measuredStart == script.pc = "armed" /\ startTimer

measuredTick == script.pc = "armed" /\ tick

measuredSync == script.pc = "armed" /\ syncTimer

measuredPause ==
  /\ script.pc = "armed"
  /\ status = RUNNING => script.P < MaxPauses
  /\ SetStore(pauseTimerOn(Store, now))
  /\ script' = [script EXCEPT !.P = IF status = RUNNING THEN @ + 1 ELSE @]
  /\ UNCHANGED << now, uiVars >>

measuredAdvance ==
  /\ script.pc = "armed"
  /\ \E d \in 1..MaxAdvance :
       /\ now + d <= MaxNow
       /\ now' = now + d
       /\ script' = [script EXCEPT !.D = IF status = RUNNING THEN @ + d ELSE @]
  /\ UNCHANGED << storeVars, uiVars >>

NextMeasured ==
  \/ armInterval
  \/ measuredStart
  \/ measuredTick
  \/ measuredSync
  \/ measuredPause
  \/ measuredAdvance

SpecMeasured == InitMeasured /\ [][NextMeasured]_vars

\* ============================================================== claims
\* What tick() and syncTimer() must leave: a function of the clock and the anchor.
ExpectedRemaining == Max(0, totalDuration - ((now - startTime) \div ClockResolution))

\* C1: while Running, the remainingSeconds left by any tick() or syncTimer() at
\* wall-clock time t is max(0, totalDuration - floor((t - anchor)/1000)), whatever
\* triggers came before; a tick or sync of a timer that is not Running leaves
\* remainingSeconds alone (so repeating either with no clock advance changes nothing).
C1_RecomputedFromAnchor ==
  [][ /\ (status = RUNNING /\ (tick \/ syncTimer)) => remainingSeconds' = ExpectedRemaining
      /\ (status # RUNNING /\ (tick \/ syncTimer)) => remainingSeconds' = remainingSeconds
    ]_vars

\* A Running timer that missed triggers for two seconds or more and was then
\* recomputed in one step.
C1_Witness ==
  /\ status = RUNNING
  /\ (now - startTime) \div ClockResolution >= 2
  /\ remainingSeconds > 0
  /\ remainingSeconds = totalDuration - ((now - startTime) \div ClockResolution)

\* The armed interval has run out: the wall clock has passed the anchor by the
\* armed duration, or a tick has already made the zero-reached transition.
Expired ==
  \/ status = RUNNING /\ startTime # NULL /\ now - startTime >= totalDuration * ClockResolution
  \/ status = IDLE /\ remainingSeconds = 0

\* C2: for every interleaving of interval ticks, visibility signals and re-render
\* effects, completePomodoro() runs at most once per zero-crossing: a step appends
\* at most one session and advances pomodorosInSession by at most one, it does so
\* only for an interval that has run out, and it leaves an interval that has not
\* (so a second completion needs a second zero-crossing).
C2_OneCompletionPerZeroCrossing ==
  [][ sessions' # sessions =>
        /\ Expired
        /\ Len(sessions') = Len(sessions) + 1
        /\ pomodorosInSession' <= pomodorosInSession + 1
        /\ ~Expired'
    ]_vars

\* Two intervals have run out under a mounted component and each was completed
\* once: a Work session, then its break.
C2_Witness ==
  /\ ui \in {"page", "hook"}
  /\ Len(sessions) = 2
  /\ sessions[1].mode = WORK /\ sessions[2].mode # WORK
  /\ pomodorosInSession = 1

\* C3 (as claimed): an interval that has run out is completed; once the component
\* has rendered the store, the timer is never left Idle at zero with no
\* completePomodoro() call made or pending for it.
C3_ExpiredIntervalCompleted ==
  (ui \in {"page", "hook"} /\ InSync) => ~(status = IDLE /\ remainingSeconds = 0)

\* The mode and the pomodoro count that n completions from (Work, 0) must have
\* produced under interval N: Work, ShortBreak, ..., Work, LongBreak, repeated.
CadenceMode(n, N) ==
  LET p == n % (2 * N)
  IN IF p % 2 = 0 THEN WORK ELSE IF p = 2 * N - 1 THEN LONG_BREAK ELSE SHORT_BREAK

CadenceCount(n, N) == ((n % (2 * N)) + 1) \div 2

\* C4: from pomodorosInCycle = 0 in Work mode, with a fixed longBreakInterval N and
\* no manual setMode, the k-th Work completion of a cycle switches to ShortBreak for
\* k < N and to LongBreak for k = N, every break completion switches to Work, and
\* pomodorosInCycle is 0 right after the LongBreak completes.
C4_LongBreakCadence ==
  LET N == settings.longBreakInterval
      n == Len(sessions)
  IN /\ mode = CadenceMode(n, N)
     /\ pomodorosInSession = CadenceCount(n, N)
     /\ \A i \in 1..n : sessions[i].mode = CadenceMode(i - 1, N)

\* N = 4: the eighth completion ended the LongBreak and the count is back to 0.
C4_Witness ==
  /\ settings.longBreakInterval = 4
  /\ Len(sessions) = 8
  /\ [i \in 1..8 |-> sessions[i].mode] =
       << WORK, SHORT_BREAK, WORK, SHORT_BREAK, WORK, SHORT_BREAK, WORK, LONG_BREAK >>
  /\ mode = WORK
  /\ pomodorosInSession = 0

\* C5: in every reachable state the anchor (startTime) is non-null if and only if
\* status = Running.
C5_AnchorIffRunning == (startTime # NULL) <=> (status = RUNNING)

\* A completion that auto-started the next interval.
C5_Witness ==
  /\ Len(sessions) = 1
  /\ status = RUNNING
  /\ startTime = now
  /\ remainingSeconds = totalDuration

\* C6: in every reachable state 0 <= remainingSeconds <= totalDuration.
C6_RemainingWithinTotal == 0 <= remainingSeconds /\ remainingSeconds <= totalDuration

\* A pause that came after the duration had fully elapsed: the clamp acted.
C6_Witness ==
  /\ status = PAUSED
  /\ remainingSeconds = 0
  /\ totalDuration > 0

\* C7 (as claimed): totalDuration is strictly positive in every reachable state.
C7_TotalDurationPositive == totalDuration > 0

\* C8 (as claimed): after the round trip the tick leaves remainingSeconds = 0
\* within one second, and status Idle.
C8_RoundTripEndsIdle ==
  script.pc = "done" => (remainingSeconds <= 1 /\ status = IDLE)

\* C8 (amended): after the round trip the tick leaves remainingSeconds = 0 and
\* status Idle when D is a whole number of seconds; when D has a fractional part
\* the pause floors it away, and the tick leaves remainingSeconds = 1 with the
\* timer still Running.
C8_RoundTripWithinOneSecond ==
  script.pc = "done" =>
    IF script.D % ClockResolution = 0
    THEN remainingSeconds = 0 /\ status = IDLE /\ startTime = NULL
    ELSE remainingSeconds = 1 /\ status = RUNNING

\* A finished round trip whose first wait had a fractional part.
C8_Witness ==
  /\ script.pc = "done"
  /\ script.D % ClockResolution # 0
  /\ script.D > ClockResolution
  /\ remainingSeconds = 1

\* C9: for every Running state, remainingSeconds after tick() is at most what it
\* was before, and never negative.
C9_MonotonicCountdown ==
  [][ (status = RUNNING /\ tick) =>
        (remainingSeconds' <= remainingSeconds /\ remainingSeconds' >= 0) ]_vars

\* A Running period that was resumed or restarted part-way (its duration is below
\* the mode's) and has counted down since.
C9_Witness ==
  /\ status = RUNNING
  /\ totalDuration < getDurationForMode(mode, settings)
  /\ 0 < remainingSeconds
  /\ remainingSeconds < totalDuration

\* C10 (as claimed): startTimer() while Running changes neither status, anchor,
\* totalDuration nor remainingSeconds.
C10_StartWhileRunningNoOp ==
  [][ (status = RUNNING /\ startTimer) =>
        UNCHANGED << status, startTime, totalDuration, remainingSeconds >> ]_vars

\* C11 (as claimed): pauseTimer(), tick() and syncTimer() invoked while the
\* status is not Running leave the whole timer state unchanged; pauseTimer()
\* from Idle does not make the timer Paused.
C11_InvalidTransitionsNoOp ==
  [][ (status # RUNNING /\ (pauseTimer \/ tick \/ syncTimer)) =>
        UNCHANGED storeVars ]_vars

\* A task with its order field set aside.
SansOrder(task) == [task EXCEPT !.order = 0]

\* What reorderTasks(from, to) must leave of the list ts (0-based positions).
MovedAndRenumbered(ts, from, to, result) ==
  /\ Len(result) = Len(ts)
  /\ SansOrder(result[to + 1]) = SansOrder(ts[from + 1])
  /\ [i \in 1..(Len(ts) - 1) |-> SansOrder(RemoveAt(result, to)[i])] =
       [i \in 1..(Len(ts) - 1) |-> SansOrder(RemoveAt(ts, from)[i])]
  /\ \A i \in 1..Len(result) : result[i].order = i - 1

\* C18: reorderTasks(from, to) with both indices in range moves the task at
\* position from to position to, keeps the relative order of the other tasks,
\* keeps the tasks themselves, and leaves every task at position i with order = i.
C18_ReorderMovesAndRenumbers ==
  \A from \in 0..(Len(tasks) - 1), to \in 0..(Len(tasks) - 1) :
    LET outcome == reorderTasksOutcome(tasks, from, to)
    IN ~outcome.raised /\ MovedAndRenumbered(tasks, from, to, outcome.tasks)

\* The third task added was moved to the front: the list reads 3, 1, 2 and is
\* numbered 0, 1, 2.
C18_Witness ==
  /\ Len(tasks) = 3
  /\ [i \in 1..3 |-> tasks[i].id] = << 3, 1, 2 >>
  /\ [i \in 1..3 |-> tasks[i].order] = << 0, 1, 2 >>

\* C19 (as claimed): getNextTask() returns none exactly when every task is
\* Completed (or there is none), and otherwise the first task that is not
\* Completed, which is also the non-Completed task with the smallest order value.
C19_NextTaskIsLowestOrder ==
  LET i == getNextTask(tasks)
  IN /\ (i = 0) <=> (\A j \in 1..Len(tasks) : tasks[j].status = COMPLETED)
     /\ i # 0 =>
          /\ tasks[i].status # COMPLETED
          /\ \A j \in 1..Len(tasks) :
               tasks[j].status # COMPLETED => tasks[i].order <= tasks[j].order

\* C20 (as claimed): the task operations are total.  In every state, no pair of
\* indices makes reorderTasks raise, in range or out of range, and it leaves the
\* same tasks; an unknown id passed to updateTask, deleteTask, completeTask or
\* incrementTaskPomodoro changes nothing.
C20_OperationsTotal ==
  /\ \A startIndex \in ReorderIndices, endIndex \in ReorderIndices :
       LET outcome == reorderTasksOutcome(tasks, startIndex, endIndex)
       IN /\ ~outcome.raised
          /\ {SansOrder(outcome.tasks[i]) : i \in 1..Len(outcome.tasks)} =
               {SansOrder(tasks[i]) : i \in 1..Len(tasks)}
  /\ \A id \in TaskIds :
       FindTask(tasks, id) = 0 =>
         /\ updateTaskOn(Store, id, [status |-> COMPLETED, completedAt |-> now]) = Store
         /\ deleteTaskOn(Store, id) = Store
         /\ completeTaskOn(Store, id, now) = Store
         /\ incrementTaskPomodoroOn(Store, id) = Store

\* C12: pomodorosInSession changes only inside completePomodoro(): plus one when
\* the ending mode is Work, back to 0 when it is LongBreak, unchanged when it is
\* ShortBreak; start, pause, reset, tick, syncTimer, setMode, assignTask (and
\* addSession) leave it alone.
C12_CountChangesOnlyOnCompletion ==
  [][ /\ pomodorosInSession' # pomodorosInSession =>
           (completePomodoro /\ mode \in {WORK, LONG_BREAK})
      /\ completePomodoro =>
           pomodorosInSession' = CASE mode = WORK -> pomodorosInSession + 1
                                   [] mode = LONG_BREAK -> 0
                                   [] OTHER -> pomodorosInSession
    ]_vars

\* A Work interval was completed, the mode was switched by hand to LongBreak,
\* and the LongBreak's completion put the count back to 0.
C12_Witness ==
  /\ Len(sessions) >= 2
  /\ sessions[1].mode = WORK /\ sessions[1].wasCompleted
  /\ sessions[Len(sessions)].mode = LONG_BREAK /\ sessions[Len(sessions)].wasCompleted
  /\ pomodorosInSession = 0
  /\ mode = WORK

\* C13: with a task assigned, a completePomodoro() that ends a Work interval
\* raises that task's completedPomodoros by exactly 1, moves it from Pending to
\* InProgress (and otherwise leaves its status, so a second completion leaves
\* it InProgress), and changes no other task.
C13_WorkCompletionBumpsAssignedTask ==
  [][ (completePomodoro /\ mode = WORK /\ Truthy(currentTaskId)) =>
        /\ Len(tasks') = Len(tasks)
        /\ \A i \in 1..Len(tasks) :
             tasks'[i] =
               IF i = FindTask(tasks, currentTaskId)
               THEN [tasks[i] EXCEPT
                       !.completedPomodoros = tasks[i].completedPomodoros + 1,
                       !.status = IF tasks[i].status = PENDING
                                  THEN IN_PROGRESS ELSE tasks[i].status]
               ELSE tasks[i]
    ]_vars

\* Two Work intervals were completed for the same assigned task: its count is
\* 2 and it is InProgress, while the other task was never touched.
C13_Witness ==
  /\ Len(sessions) = 3
  /\ sessions[1].mode = WORK /\ sessions[3].mode = WORK
  /\ sessions[1].taskId = 1 /\ sessions[3].taskId = 1
  /\ \E i \in 1..Len(tasks) :
       tasks[i].id = 1 /\ tasks[i].completedPomodoros = 2 /\ tasks[i].status = IN_PROGRESS
  /\ \E j \in 1..Len(tasks) :
       tasks[j].id = 2 /\ tasks[j].completedPomodoros = 0 /\ tasks[j].status = PENDING

\* C14: the session log is append-only: after any store operation the list is
\* the list before, or the list before with exactly one record appended at the
\* end; completePomodoro() appends exactly one record, whose mode is the mode
\* that just ended and whose taskId is the assigned task.
C14_SessionsAppendOnly ==
  [][ /\ \/ sessions' = sessions
         \/ /\ Len(sessions') = Len(sessions) + 1
            /\ SubSeq(sessions', 1, Len(sessions)) = sessions
      /\ completePomodoro =>
           /\ Len(sessions') = Len(sessions) + 1
           /\ sessions'[Len(sessions')].mode = mode
           /\ sessions'[Len(sessions')].taskId = currentTaskId
    ]_vars

\* The log holds a completed Work record for the assigned task, then a record
\* added through addSession(), then a completed break record, in that order.
C14_Witness ==
  /\ Len(sessions) = 3
  /\ sessions[1].mode = WORK /\ sessions[1].wasCompleted /\ sessions[1].taskId = 1
  /\ ~sessions[2].wasCompleted
  /\ sessions[3].mode # WORK /\ sessions[3].wasCompleted

\* C15: every interval that ends yields exactly one session record: one with
\* wasCompleted = true when completePomodoro() ends it at zero, and one with
\* wasCompleted = false when a started (Running or Paused) interval is
\* abandoned through resetTimer() or setMode().
C15_EndedIntervalRecorded ==
  [][ /\ completePomodoro =>
           /\ Len(sessions') = Len(sessions) + 1
           /\ sessions'[Len(sessions')].wasCompleted
      /\ (status # IDLE /\ (resetTimer \/ setMode)) =>
           /\ Len(sessions') = Len(sessions) + 1
           /\ ~sessions'[Len(sessions')].wasCompleted
    ]_vars

PomodorosOf(ts, id) == ts[FindTask(ts, id)].completedPomodoros

\* C16: a task's completedPomodoros changes only in a completePomodoro() step
\* that ends a Work interval while that task is the assigned task; updateTask,
\* incrementTaskPomodoro, completeTask, status changes and reorder never raise
\* or lower it.
C16_CountChangesOnlyOnWorkCompletion ==
  [][ \A id \in TaskIds :
        ( /\ FindTask(tasks, id) # 0
          /\ FindTask(tasks', id) # 0
          /\ PomodorosOf(tasks', id) # PomodorosOf(tasks, id) ) =>
        (completePomodoro /\ mode = WORK /\ currentTaskId = id)
    ]_vars

RECURSIVE SumOver(_, _)
SumOver(ss, indices) ==
  IF indices = {} THEN 0
  ELSE LET i == CHOOSE j \in indices : TRUE
       IN ss[i].duration + SumOver(ss, indices \ {i})

\* C17: getDailyStats(days) returns exactly days entries, oldest first and
\* ending with today; a day's entry counts exactly the sessions that were
\* completed, in Work mode, and started on that day; totalWorkMinutes is the
\* sum of their durations divided by a minute, rounded to the nearest integer
\* (a half going up); tasksCompleted is the number of distinct non-null
\* taskIds among them.
C17_DailyStats ==
  \A days \in 0..MaxDays :
    LET stats == getDailyStats(sessions, now, days)
        today == now \div DayLength
    IN /\ Len(stats) = days
       /\ \A k \in 1..days :
            LET day == today - (days - k)
                counted == { i \in 1..Len(sessions) :
                               /\ sessions[i].wasCompleted
                               /\ sessions[i].mode = WORK
                               /\ sessions[i].startedAt \div DayLength = day }
                total == SumOver(sessions, counted)
                minutes == stats[k].totalWorkMinutes
            IN /\ stats[k].date = day
               /\ stats[k].completedPomodoros = Cardinality(counted)
               /\ 2 * MinuteLength * minutes <= 2 * total + MinuteLength
               /\ 2 * total + MinuteLength < 2 * MinuteLength * (minutes + 1)
               /\ stats[k].tasksCompleted =
                    Cardinality({ sessions[i].taskId : i \in counted } \ {NULL})

\* Three records over two days: yesterday's entry counts one Work session,
\* today's entry counts one whose duration is half a minute more than a whole
\* number of minutes (so the total was rounded up), and the third record is
\* left out of both entries.
C17_Witness ==
  /\ Len(sessions) = 3
  /\ LET stats == getDailyStats(sessions, now, 2)
     IN /\ stats[1].completedPomodoros = 1
        /\ stats[2].completedPomodoros = 1
        /\ stats[2].tasksCompleted = 1
        /\ \E i \in 1..3 :
             /\ sessions[i].wasCompleted /\ sessions[i].mode = WORK
             /\ format(sessions[i].startedAt) = format(now)
             /\ 2 * (sessions[i].duration % MinuteLength) = MinuteLength
             /\ stats[2].totalWorkMinutes * MinuteLength = sessions[i].duration + 1

\* C21: at session start, also one that rehydrates persisted settings after a
\* reload, the timer is Idle, in Work mode, with a null anchor and
\* remainingSeconds = totalDuration = workDuration minutes of the current
\* configuration.
C21_StartsWithConfiguredWork ==
  [][ reload =>
        /\ status' = IDLE /\ mode' = WORK /\ startTime' = NULL
        /\ remainingSeconds' = settings'.workDuration * MinuteLength
        /\ totalDuration' = settings'.workDuration * MinuteLength
    ]_vars

\* C30: in every reachable state, also after updateTimerSettings changed a
\* duration, remainingSeconds <= resolveDuration(mode, current settings), so
\* that selectTimerProgress stays within 0..100 percent.
C30_RemainingWithinConfigured ==
  remainingSeconds <= getDurationForMode(mode, settings)

\* C22: after completePomodoro(), if the ending mode was Work the status is
\* Running with the anchor at the current instant exactly when autoStartBreaks
\* is set, and Idle with a null anchor otherwise; if the ending mode was a
\* break the new mode is Work and the same holds with autoStartWork; in all
\* cases remainingSeconds = totalDuration = the new mode's configured duration.
C22_AutoStartAfterCompletion ==
  [][ completePomodoro =>
        LET auto == IF mode = WORK THEN settings.autoStartBreaks
                                   ELSE settings.autoStartWork
        IN /\ (mode # WORK => mode' = WORK)
           /\ (mode = WORK => mode' # WORK)
           /\ (auto => status' = RUNNING /\ startTime' = now)
           /\ (~auto => status' = IDLE /\ startTime' = NULL)
           /\ remainingSeconds' = getDurationForMode(mode', settings')
           /\ totalDuration' = getDurationForMode(mode', settings')
    ]_vars

\* Breaks start by themselves and Work does not: a Work completion left the
\* break Running, and the break's completion left Work Idle.
C22_Witness ==
  /\ settings.autoStartBreaks /\ ~settings.autoStartWork
  /\ Len(sessions) = 2
  /\ sessions[1].mode = WORK /\ sessions[2].mode = SHORT_BREAK
  /\ mode = WORK /\ status = IDLE /\ startTime = NULL
  /\ remainingSeconds = settings.workDuration * MinuteLength

C24_SyncOnlyRecomputes ==
  [][ syncTimer =>
        /\ UNCHANGED << status, mode, currentTaskId, pomodorosInSession, startTime,
                        totalDuration, tasks, settings, sessions >>
        /\ (status = RUNNING /\ now - startTime >= totalDuration * ClockResolution) =>
             (remainingSeconds' = 0 /\ status' = RUNNING /\ startTime' # NULL)
    ]_vars

\* A sync found the armed duration fully elapsed: the remaining time is 0 and
\* the timer is still Running on its anchor.
C24_Witness ==
  /\ status = RUNNING /\ startTime # NULL
  /\ totalDuration > 0
  /\ now - startTime >= totalDuration * ClockResolution
  /\ remainingSeconds = 0

\* C25: the mode changes only in a completePomodoro() step or a setMode()
\* step: a tick() that reaches zero sets status Idle, a null anchor and
\* remainingSeconds = 0 but keeps the mode, and start, pause, reset and
\* syncTimer never change the mode.
C25_ModeChangesOnlyByCompletionOrSetMode ==
  [][ /\ mode' # mode => (completePomodoro \/ setMode)
      /\ (tick /\ status = RUNNING /\ startTime # NULL
               /\ now - startTime >= totalDuration * ClockResolution) =>
           (status' = IDLE /\ startTime' = NULL /\ remainingSeconds' = 0 /\ mode' = mode)
    ]_vars

\* A Work countdown ran out under tick(): the timer is Idle at 0 with no
\* anchor, still in Work mode, and nothing has been logged.
C25_Witness ==
  /\ status = IDLE /\ startTime = NULL
  /\ remainingSeconds = 0 /\ totalDuration > 0
  /\ mode = WORK
  /\ sessions = << >>

\* C26: if the timer is Running, the clock keeps advancing, tick triggers keep
\* being delivered and no pause, reset or setMode occurs, then eventually
\* tick() has set remainingSeconds = 0 and status Idle.
C26_CountdownEnds ==
  (status = RUNNING) ~> (status = IDLE /\ remainingSeconds = 0 /\ startTime = NULL)

\* A countdown that was started has run out: Idle at 0, later than it began.
C26_Witness ==
  /\ status = IDLE /\ remainingSeconds = 0 /\ startTime = NULL
  /\ totalDuration > 0
  /\ now >= 1 + totalDuration * ClockResolution

\* C27: the timer never completes early: over any sequence of startTimer,
\* pauseTimer, resume, repeated startTimer, tick and syncTimer with no reset or
\* setMode, remainingSeconds is 0 only when the clock time spent Running since
\* the interval was armed with R seconds is at least R seconds; and the floor
\* taken at a pause of a Running timer leaves at least the exact remaining
\* time and less than one second more than it.
C27_NeverCompletesEarly ==
  [][ script'.pc = "armed" =>
        /\ remainingSeconds' = 0 => script'.D >= script'.R * ClockResolution
        /\ (script.pc = "armed" /\ script'.P = script.P + 1) =>
             LET exact == totalDuration * ClockResolution - (now - startTime)
             IN IF exact >= 0
                THEN /\ remainingSeconds' * ClockResolution >= exact
                     /\ remainingSeconds' * ClockResolution < exact + ClockResolution
                ELSE remainingSeconds' = 0
    ]_vars

\* An interval that was paused in the middle of a second and resumed has run
\* out: it took more Running time than the R seconds it was armed with.
C27_Witness ==
  /\ script.pc = "armed" /\ script.R > 0
  /\ script.P >= 1
  /\ status = IDLE /\ remainingSeconds = 0
  /\ script.D > script.R * ClockResolution

\* C28: in every reachable state currentTaskId is null or the id of a task in
\* the task list, also after deleteTask of the assigned task (so that a
\* non-null taskId written into a session refers to an existing task).
C28_AssignedTaskExists ==
  currentTaskId = NULL \/ \E i \in 1..Len(tasks) : tasks[i].id = currentTaskId

\* C29: in every state reachable by adding tasks through the UI (order = the
\* current task count), deleting tasks and reordering, the order values
\* strictly increase along the task array.
C29_OrderStrictlyIncreasing ==
  \A i \in 1..(Len(tasks) - 1) : tasks[i].order < tasks[i + 1].order

====
